---- MODULE Spec2Model ----
(***************************************************************************)
(* Chat-turn orchestration of the AIChat backend.                          *)
(*                                                                         *)
(* The model follows backend/app/api/chat.py (send_message and             *)
(* send_message_stream with its SSE generator generate()), the stream      *)
(* adapter AzureOpenAIService.chat_completion_stream, the request schema   *)
(* ChatRequest and the persistence primitives of CosmosDBService.          *)
(*                                                                         *)
(* One step of the model is the code a request runs between two points     *)
(* where it really gives up control: a yield of the SSE generator (the     *)
(* event is handed to the client), the await on the completion backend,    *)
(* and the call of the blocking completion client in send_message.  The    *)
(* Cosmos and blob calls are synchronous SDK calls inside `async def`      *)
(* bodies, so they never suspend the request.                              *)
(*                                                                         *)
(* Text is a sequence of characters.  The completion backend, the title    *)
(* backend, the blob store and the client (who may disconnect) are the     *)
(* environment: their behaviour is chosen nondeterministically.            *)
(*                                                                         *)
(* Spec is two requests on a new conversation.  SpecDelete adds the        *)
(* owner's deletion of the conversation, SpecThree has three requests with *)
(* one request body, SpecLong starts one request on a conversation that    *)
(* already has messages, and SpecBuild runs the assembly of the context    *)
(* on inputs drawn from bounded sets.                                      *)
(***************************************************************************)
EXTENDS Integers, Sequences, FiniteSets, TLC

\* ------------------------------------------------------------------ bounds

\* Most chunks with text or a finish_reason that the completion backend
\* delivers, over all streams together.
MaxChunks == 2

\* The requests: two, so that turns on one conversation can overlap.
Turns == {1, 2}

\* ------------------------------------------------------------- basic values

\* Python's None where a string is expected (a text no request can carry).
None == <<"<None>">>

\* Python's None where a title is expected.
NoTitle == ""

NoDoc == [exists |-> FALSE]

ConvIds == {"c1", "c2"}

Users == {"u1", "u2"}

\* The letters the backend's chunks carry: chunk n of a stream carries Letters[n].
Letters == <<"a", "b", "c", "d", "e", "f">>

\* The default title of a conversation (the source's "xin dui hua", new chat),
\* which is also what the title generator returns when it fails.
DefaultTitle == "new-chat"

DefaultSystemPrompt == "helpful-assistant"

DefaultModel == "gpt-4o"

\* A title the user gave at creation, and a title the title backend generates.
UserTitle == "my title"

GeneratedTitle == "generated title"

\* ------------------------------------------------------------------- text

IsSpace(c) == c \in {" ", "\t", "\n"}

RECURSIVE LStrip(_)
LStrip(s) ==
    IF s # <<>> /\ IsSpace(Head(s)) THEN LStrip(Tail(s)) ELSE s

RECURSIVE RStrip(_)
RStrip(s) ==
    IF s # <<>> /\ IsSpace(s[Len(s)]) THEN RStrip(SubSeq(s, 1, Len(s) - 1)) ELSE s

\* str.strip()
Strip(s) == RStrip(LStrip(s))

\* str.endswith(suffix)
EndsWith(s, suffix) ==
    /\ Len(s) >= Len(suffix)
    /\ SubSeq(s, Len(s) - Len(suffix) + 1, Len(s)) = suffix

\* Python truthiness of an Optional[str]
Truthy(s) == s # None /\ s # <<>>

\* ------------------------------------------------------------- the requests

ImageAtt ==
    [id |-> "i1", type |-> "image", url |-> <<"U">>, mimeType |-> <<"image/png">>,
     fileName |-> <<"p", ".", "p", "n", "g">>]

TextAtt ==
    [id |-> "f1", type |-> "file", url |-> <<"V">>, mimeType |-> <<"text/plain">>,
     fileName |-> <<"n", ".", "t", "x", "t">>]

Request(conv, user, content, attachments) ==
    [conv |-> conv, user |-> user, content |-> content, attachments |-> attachments]

\* The requests a client may send: accepted ones (text only; blank text with a
\* text file), ones the schema refuses (no text or blank text, no attachment),
\* and ones for a conversation that does not exist or belongs to someone else.
Requests ==
    { Request("c1", "u1", <<"h">>, <<>>),
      Request("c1", "u1", <<" ">>, <<TextAtt>>),
      Request("c1", "u1", <<>>, <<>>),
      Request("c1", "u1", <<" ">>, <<>>),
      Request("c2", "u1", <<"h">>, <<TextAtt>>),
      Request("c1", "u2", <<"h">>, <<TextAtt>>),
      Request("c2", "u2", <<" ">>, <<>>) }

\* What download_text_file may return for one attachment.
FetchResults == {None, <<"F">>}

\* The attachment was not handed to download_text_file.
NotFetched == <<"<not-fetched>">>

\* ------------------------------------------------------------------ state

VARIABLES
    conversations,  \* the "conversations" container: ConvIds -> document or NoDoc
    messages,       \* the "messages" container, in creation (createdAt) order
    nextId,         \* the next fresh message identifier (uuid4)
    chunksLeft,     \* chunks the completion backend may still deliver
    turn            \* per request: its position, locals and what its client received

vars == <<conversations, messages, nextId, chunksLeft, turn>>

\* A request that has not arrived yet.  The fields up to events are the
\* handler's locals and what its client received.  The others record what the
\* request did: what chat_completion_stream yielded to generate() (or that it
\* raised), how often the completion backend and the title backend were called,
\* how often the request called update_conversation, what each download
\* returned, the message list handed to the completion backend, how many title
\* attempts failed and the titles the request's updates stored.
IdleTurn ==
    [pc |-> "idle", kind |-> "none", req |-> [conv |-> "c1", user |-> "u1",
                                              content |-> <<>>, attachments |-> <<>>],
     conversation |-> NoDoc, history |-> <<>>, user_message_id |-> 0,
     history_for_api |-> <<>>,
     image_attachments |-> <<>>, text_file_contents |-> <<>>, fetched |-> <<>>,
     enhanced_message |-> <<>>, full_content |-> <<>>, finish_pending |-> FALSE,
     events |-> <<>>, adapter |-> <<>>, backend_calls |-> 0, title_calls |-> 0,
     conv_updates |-> 0, fetch_results |-> <<>>, api_messages |-> <<>>,
     title_failures |-> 0, titles_written |-> <<>>]

\* ------------------------------------------------------- persistence layer

\* CosmosDBService.create_conversation: the document of a new conversation.
create_conversation(user_id, title) ==
    [exists |-> TRUE, userId |-> user_id, title |-> title,
     systemPrompt |-> DefaultSystemPrompt, model |-> DefaultModel,
     messageCount |-> 0]

\* The read is not confined to the requester's partition.
get_conversation_AnyOwner(convs, conversation_id, user_id) ==
    IF convs[conversation_id].exists THEN convs[conversation_id] ELSE NoDoc

\* CosmosDBService.get_conversation: a point read in the owner's partition.
get_conversation(convs, conversation_id, user_id) ==
    IF convs[conversation_id].exists /\ convs[conversation_id].userId = user_id
    THEN convs[conversation_id]
    ELSE NoDoc

AllowedUpdates == {"title", "systemPrompt", "model", "messageCount"}

\* CosmosDBService.update_conversation: read, overwrite the whitelisted fields,
\* replace the document; nothing happens when the conversation is not found.
update_conversation(convs, conversation_id, user_id, updates) ==
    LET conversation == get_conversation(convs, conversation_id, user_id) IN
    IF ~conversation.exists
    THEN convs
    ELSE [convs EXCEPT ![conversation_id] =
            [k \in DOMAIN conversation |->
                IF k \in DOMAIN updates /\ k \in AllowedUpdates
                THEN updates[k] ELSE conversation[k]]]

\* CosmosDBService.create_message: a new document at the end of the container.
\* `turn` is not a field of the stored document: it records which request
\* created the message.
create_message(msgs, id, conversation_id, role, content, attachments, t) ==
    Append(msgs, [id |-> id, conversationId |-> conversation_id, role |-> role,
                  content |-> content, attachments |-> attachments, turn |-> t])

\* CosmosDBService.delete_messages_by_conversation: every message of the
\* conversation is deleted.
delete_messages_by_conversation(msgs, conversation_id) ==
    SelectSeq(msgs, LAMBDA m : m.conversationId # conversation_id)

\* send_message / send_message_stream: the number of messages asked for as history.
HistoryLimit == 20

\* CosmosDBService.get_messages_by_conversation without before_id: the
\* conversation's messages ORDER BY createdAt ASC OFFSET 0 LIMIT limit.
get_messages_by_conversation(msgs, conversation_id, limit) ==
    LET all == SelectSeq(msgs, LAMBDA m : m.conversationId = conversation_id) IN
    SubSeq(all, 1, IF Len(all) < limit THEN Len(all) ELSE limit)

\* ------------------------------------------------------ request validation

\* The text is tested for emptiness without being stripped.
validate_content_or_attachments_NoStrip(r) ==
    ~(r.content = <<>> /\ Len(r.attachments) = 0)

\* ChatRequest.validate_content_or_attachments: a request is refused when its
\* text is blank and it carries no attachment.
validate_content_or_attachments(r) ==
    ~(Strip(r.content) = <<>> /\ Len(r.attachments) = 0)

\* ---------------------------------------------------- attachment resolution

TextMimeTypes == {<<"text/plain">>, <<"text/markdown">>, <<"application/octet-stream">>}

DotMd == <<".", "m", "d">>

DotTxt == <<".", "t", "x", "t">>

\* generate(): is_text_file
is_text_file(att) ==
    LET mime_type == IF Truthy(att.mimeType) THEN att.mimeType ELSE <<>> IN
    \/ mime_type \in TextMimeTypes
    \/ /\ Truthy(att.fileName)
       /\ EndsWith(att.fileName, DotMd) \/ EndsWith(att.fileName, DotTxt)

\* generate(): whether the loop over the attachments downloads this one.
IsFetched(att) ==
    /\ ~(att.type = "image" /\ Truthy(att.url))
    /\ att.type = "file" /\ Truthy(att.url)
    /\ is_text_file(att)

\* generate(): image_attachments after the first n attachments.
RECURSIVE ImageAttachments(_, _)
ImageAttachments(atts, n) ==
    IF n = 0 THEN <<>>
    ELSE LET att == atts[n] IN
         IF att.type = "image" /\ Truthy(att.url)
         THEN Append(ImageAttachments(atts, n - 1), [type |-> "image", url |-> att.url])
         ELSE ImageAttachments(atts, n - 1)

\* An attachment whose download failed gets a block with no content.
RECURSIVE TextFileContents_FailedAsEmpty(_, _, _)
TextFileContents_FailedAsEmpty(atts, fr, n) ==
    IF n = 0 THEN <<>>
    ELSE LET att == atts[n] IN
         IF IsFetched(att)
         THEN Append(TextFileContents_FailedAsEmpty(atts, fr, n - 1),
                     [fileName |-> IF Truthy(att.fileName) THEN att.fileName
                                   ELSE <<"uploaded_file">>,
                      content |-> IF Truthy(fr[n]) THEN fr[n] ELSE <<>>])
         ELSE TextFileContents_FailedAsEmpty(atts, fr, n - 1)

\* generate(): text_file_contents after the first n attachments, when the
\* download of attachment i returns fr[i].
RECURSIVE TextFileContents(_, _, _)
TextFileContents(atts, fr, n) ==
    IF n = 0 THEN <<>>
    ELSE LET att == atts[n] IN
         IF IsFetched(att) /\ Truthy(fr[n])
         THEN Append(TextFileContents(atts, fr, n - 1),
                     [fileName |-> IF Truthy(att.fileName) THEN att.fileName
                                   ELSE <<"uploaded_file">>,
                      content |-> fr[n]])
         ELSE TextFileContents(atts, fr, n - 1)

\* generate(): the URLs handed to download_text_file, in order.
RECURSIVE FetchedUrls(_, _)
FetchedUrls(atts, n) ==
    IF n = 0 THEN <<>>
    ELSE IF IsFetched(atts[n])
         THEN Append(FetchedUrls(atts, n - 1), atts[n].url)
         ELSE FetchedUrls(atts, n - 1)

\* ------------------------------------------------------ enhanced user text

DefaultImagePrompt == <<"<describe-and-analyze-this-image>">>

AnalyzeFilesPrompt == <<"<please-analyze-the-following-files>">>

FileContextHeader == <<"\n", "\n", "-", "-", "-", "\n", "<files-uploaded-by-the-user>", "\n">>

FileBlock(file_info) ==
    <<"\n", "[">> \o file_info.fileName \o <<"]", "\n", "<fence>", "\n">>
        \o file_info.content \o <<"\n", "<fence>", "\n">>

RECURSIVE FileContext(_, _)
FileContext(files, n) ==
    IF n = 0 THEN FileContextHeader
    ELSE FileContext(files, n - 1) \o FileBlock(files[n])

\* generate(): enhanced_message
EnhancedMessage(content, images, files) ==
    LET m1 == IF Strip(content) = <<>> /\ images # <<>>
              THEN DefaultImagePrompt ELSE content
    IN  IF files # <<>>
        THEN IF m1 # <<>>
             THEN m1 \o FileContext(files, Len(files))
             ELSE AnalyzeFilesPrompt \o FileContext(files, Len(files))
        ELSE m1

\* ------------------------------------------------- the completion request

\* Every history entry is passed on, whatever its role.
RECURSIVE history_for_api_AnyRole(_)
history_for_api_AnyRole(history) ==
    IF history = <<>> THEN <<>>
    ELSE <<[role |-> Head(history).role, content |-> Head(history).content]>>
             \o history_for_api_AnyRole(Tail(history))

\* generate() / send_message: history_for_api, the role and content of the
\* history entries whose role is user or assistant.
RECURSIVE history_for_api(_)
history_for_api(history) ==
    IF history = <<>> THEN <<>>
    ELSE LET msg == Head(history) IN
         IF msg.role \in {"user", "assistant"}
         THEN <<[role |-> msg.role, content |-> msg.content]>>
                  \o history_for_api(Tail(history))
         ELSE history_for_api(Tail(history))

\* _build_messages: the image_url parts of the current user entry.
RECURSIVE ImageParts(_)
ImageParts(attachments) ==
    IF attachments = <<>> THEN <<>>
    ELSE IF Head(attachments).type = "image"
         THEN <<Head(attachments).url>> \o ImageParts(Tail(attachments))
         ELSE ImageParts(Tail(attachments))

\* An entry of the message list: `parts` tells whether the content is a list
\* of parts (a text part and the image_url parts) or a plain text.
ApiMessage(role, content, parts, image_urls) ==
    [role |-> role, content |-> content, parts |-> parts, image_urls |-> image_urls]

\* AzureOpenAIService._build_messages: the system prompt, the history entries
\* as given, the current user entry.
build_messages(system_prompt, history, user_message, attachments) ==
    <<ApiMessage("system", <<system_prompt>>, FALSE, <<>>)>>
    \o [i \in 1..Len(history) |->
            ApiMessage(history[i].role, history[i].content, FALSE, <<>>)]
    \o <<IF attachments # <<>>
         THEN ApiMessage("user", user_message, TRUE, ImageParts(attachments))
         ELSE ApiMessage("user", user_message, FALSE, <<>>)>>

\* send_message: the attachments handed to chat_completion, one entry per
\* attachment of the request with its type and a placeholder URL made of its id.
PlaceholderAttachments(atts) ==
    [i \in 1..Len(atts) |->
        [type |-> atts[i].type, url |-> <<"placeholder-url-for-", atts[i].id>>]]

\* send_message with chat_completion: the message list of a non-streaming
\* request, built from the request's text as it was sent.
PlainMessages(tr) ==
    build_messages(tr.conversation.systemPrompt,
                   history_for_api(tr.history),
                   tr.req.content,
                   PlaceholderAttachments(tr.req.attachments))

\* ------------------------------------------------------------ title backend

\* What the title completion call may do.
TitleOutcomes == {"title", "empty", "raise"}

\* AzureOpenAIService.generate_conversation_title: the generated title, or the
\* default title when the call raises or returns nothing; it never raises.
generate_conversation_title(outcome) ==
    IF outcome = "title" THEN GeneratedTitle ELSE DefaultTitle

\* ------------------------------------------------------------------ events

Event(type, payload) == [type |-> type, payload |-> payload]

Emit(t, type, payload) == Append(turn[t].events, Event(type, payload))

\* --------------------------------------------------------------------- Init

Init ==
    /\ conversations = [c \in ConvIds |->
                           IF c = "c1" THEN create_conversation("u1", UserTitle)
                           ELSE NoDoc]
    /\ messages = <<>>
    /\ nextId = 1
    /\ chunksLeft = MaxChunks
    /\ turn = [t \in Turns |-> IdleTurn]

\* ------------------------------------------------- the start of a turn

\* Requests are numbered in the order they arrive.
MayArrive(t) ==
    /\ turn[t].pc = "idle"
    /\ IF t = 1 THEN TRUE ELSE turn[t - 1].pc # "idle"

\* The user message is not saved at the start of the turn.
UserMessage_NotSaved(msgs, id, r, t) == msgs

\* send_message_stream / send_message: the user message document.
UserMessage(msgs, id, r, t) ==
    create_message(msgs, id, r.conv, "user", r.content, r.attachments, t)

\* The body of both handlers up to the creation of the user message: the
\* request is validated by its schema, the conversation is read in the
\* requester's partition, the history is read and the user message is created.
StartTurn(t, r, kind, next_pc) ==
    /\ MayArrive(t)
    /\ IF ~validate_content_or_attachments(r)
       THEN /\ turn' = [turn EXCEPT ![t] =
                          [@ EXCEPT !.pc = "rejected", !.kind = kind, !.req = r]]
            /\ UNCHANGED <<conversations, messages, nextId, chunksLeft>>
       ELSE LET conversation == get_conversation(conversations, r.conv, r.user) IN
            IF ~conversation.exists
            THEN /\ turn' = [turn EXCEPT ![t] =
                               [@ EXCEPT !.pc = "not_found", !.kind = kind, !.req = r]]
                 /\ UNCHANGED <<conversations, messages, nextId, chunksLeft>>
            ELSE /\ messages' = UserMessage(messages, nextId, r, t)
                 /\ nextId' = nextId + 1
                 /\ turn' = [turn EXCEPT ![t] =
                               [@ EXCEPT !.pc = next_pc, !.kind = kind, !.req = r,
                                         !.conversation = conversation,
                                         !.history = get_messages_by_conversation(
                                                        messages, r.conv, HistoryLimit),
                                         !.user_message_id = nextId]]
                 /\ UNCHANGED <<conversations, chunksLeft>>

\* POST /conversations/{id}/messages/stream, up to the StreamingResponse.
send_message_stream(t) ==
    \E r \in Requests : StartTurn(t, r, "stream", "gen")

\* POST /conversations/{id}/messages, up to the call of chat_completion.
send_message(t) ==
    \E r \in Requests : StartTurn(t, r, "plain", "ns_call")

\* ------------------------------------------------- the non-streaming turn

\* The text chat_completion returns.
PlainResponse == <<"r">>

\* send_message after chat_completion returned: the assistant message is
\* created and messageCount is set to the value read at the start plus 2.
chat_completion_returns(t) ==
    /\ turn[t].pc = "ns_call"
    /\ messages' = create_message(messages, nextId, turn[t].req.conv, "assistant",
                                  PlainResponse, <<>>, t)
    /\ nextId' = nextId + 1
    /\ conversations' =
          update_conversation(conversations, turn[t].req.conv, turn[t].req.user,
                              [messageCount |-> turn[t].conversation.messageCount + 2])
    /\ turn' = [turn EXCEPT ![t] =
                  [@ EXCEPT !.pc = "ns_done", !.backend_calls = @ + 1,
                            !.history_for_api = history_for_api(turn[t].history),
                            !.api_messages = PlainMessages(turn[t]),
                            !.full_content = PlainResponse,
                            !.conv_updates = @ + 1]]
    /\ UNCHANGED chunksLeft

\* The failure of chat_completion is swallowed: the handler returns normally.
chat_completion_raises_Swallowed(t) ==
    /\ turn[t].pc = "ns_call"
    /\ turn' = [turn EXCEPT ![t] =
                  [@ EXCEPT !.pc = "ns_done", !.backend_calls = @ + 1,
                            !.history_for_api = history_for_api(turn[t].history),
                            !.api_messages = PlainMessages(turn[t])]]
    /\ UNCHANGED <<conversations, messages, nextId, chunksLeft>>

\* send_message when chat_completion raises: the exception leaves the handler
\* and the global exception handler answers with status 500.
chat_completion_raises(t) ==
    /\ turn[t].pc = "ns_call"
    /\ turn' = [turn EXCEPT ![t] =
                  [@ EXCEPT !.pc = "ns_failed", !.backend_calls = @ + 1,
                            !.history_for_api = history_for_api(turn[t].history),
                            !.api_messages = PlainMessages(turn[t])]]
    /\ UNCHANGED <<conversations, messages, nextId, chunksLeft>>

\* ------------------------------------------------------ the SSE generator

\* message_start carries no message identifier.
StartData_NoId(tr) == <<>>

\* generate(): the payload of message_start, the id of the user message.
StartData(tr) == <<tr.user_message_id>>

\* generate() from its first line to the yield of message_start: the
\* attachments are resolved (fr[i] is what the download of attachment i
\* returns), the enhanced user text is built and message_start is sent.
generate_start(t) ==
    /\ turn[t].pc = "gen"
    /\ \E fr \in [1..Len(turn[t].req.attachments) -> FetchResults] :
          LET atts   == turn[t].req.attachments
              images == ImageAttachments(atts, Len(atts))
              files  == TextFileContents(atts, fr, Len(atts))
          IN  turn' = [turn EXCEPT ![t] =
                         [@ EXCEPT !.pc = "y_start",
                                   !.history_for_api = history_for_api(turn[t].history),
                                   !.fetch_results =
                                        [i \in 1..Len(atts) |->
                                            IF IsFetched(atts[i]) THEN fr[i]
                                            ELSE NotFetched],
                                   !.image_attachments = images,
                                   !.text_file_contents = files,
                                   !.fetched = FetchedUrls(atts, Len(atts)),
                                   !.enhanced_message =
                                        EnhancedMessage(turn[t].req.content, images, files),
                                   !.events = Emit(t, "message_start",
                                                   StartData(turn[t]))]]
    /\ UNCHANGED <<conversations, messages, nextId, chunksLeft>>

\* generate(), except Exception: the error event is sent; nothing follows it
\* in the generator.
EmitError(t) ==
    [turn[t] EXCEPT !.pc = "errored", !.events = Emit(t, "error", <<>>),
                    !.adapter = Append(@, Event("raise", <<>>))]

\* generate() resumed after message_start: chat_completion_stream is called
\* and awaits the creation of the stream, which the backend grants or refuses.
open_stream(t) ==
    LET msgs == build_messages(turn[t].conversation.systemPrompt,
                               turn[t].history_for_api,
                               turn[t].enhanced_message,
                               turn[t].image_attachments)
    IN
    /\ turn[t].pc = "y_start"
    /\ \/ turn' = [turn EXCEPT ![t] = [@ EXCEPT !.pc = "iter", !.backend_calls = @ + 1,
                                                !.api_messages = msgs]]
       \/ turn' = [turn EXCEPT ![t] = [EmitError(t) EXCEPT !.backend_calls = @ + 1,
                                                          !.api_messages = msgs]]
    /\ UNCHANGED <<conversations, messages, nextId, chunksLeft>>

\* The delta is accumulated and not relayed to the client.
OnContentDelta_NoRelay(tr, delta) ==
    [tr EXCEPT !.full_content = @ \o delta]

\* The delta is relayed ahead of the deltas relayed before it.
OnContentDelta_Ahead(tr, delta) ==
    [tr EXCEPT !.full_content = @ \o delta,
               !.events = <<Head(@), Event("content_delta", delta)>> \o Tail(@)]

\* generate(), chunk type content_delta: accumulate and relay.
OnContentDelta(tr, delta) ==
    [tr EXCEPT !.full_content = @ \o delta,
               !.events = Append(@, Event("content_delta", delta))]

\* The assistant message holds the last piece of text instead of all of it.
AssistantMessage_LastPiece(msgs, id, tr, t) ==
    create_message(msgs, id, tr.req.conv, "assistant",
                   IF tr.full_content = <<>> THEN <<>>
                   ELSE <<tr.full_content[Len(tr.full_content)]>>,
                   <<>>, t)

\* The assistant message is not stored.
AssistantMessage_NotStored(msgs, id, tr, t) == msgs

\* generate(), chunk type finish: the new messages container.
AssistantMessage(msgs, id, tr, t) ==
    create_message(msgs, id, tr.req.conv, "assistant", tr.full_content, <<>>, t)

\* messageCount is computed from the stored document, not from the document
\* the request read at its start.
FinishUpdates_FromStored(tr, new_title) ==
    IF tr.conversation.messageCount = 0
    THEN [messageCount |-> conversations[tr.req.conv].messageCount + 2,
          title |-> new_title]
    ELSE [messageCount |-> conversations[tr.req.conv].messageCount + 2]

\* A title is written at the end of every turn, first or not.
FinishUpdates_AlwaysTitle(tr, new_title) ==
    [messageCount |-> tr.conversation.messageCount + 2, title |-> GeneratedTitle]

\* generate(), chunk type finish: the fields written to the conversation;
\* new_title is the generated title on the first turn and NoTitle otherwise.
\* (The inner except branch, which writes messageCount alone, is entered only
\* when update_conversation itself raises: generate_conversation_title
\* catches its own failures.  The persistence layer is taken not to fail.)
FinishUpdates(tr, new_title) ==
    IF tr.conversation.messageCount = 0
    THEN [messageCount |-> 2, title |-> new_title]
    ELSE [messageCount |-> tr.conversation.messageCount + 2]

\* generate(), chunk type finish: the payload of message_end.
EndData(message_id, new_title) ==
    IF new_title # NoTitle THEN <<message_id, new_title>> ELSE <<message_id>>

\* generate(), chunk type finish, up to the yield of message_end: the
\* assistant message is created, on a first turn the title is generated,
\* the conversation is updated and message_end is sent.
OnFinish(t, tr, outcome) ==
    LET first     == tr.conversation.messageCount = 0
        new_title == IF first THEN generate_conversation_title(outcome) ELSE NoTitle
        found     == get_conversation(conversations, tr.req.conv, tr.req.user).exists
    IN  /\ messages' = AssistantMessage(messages, nextId, tr, t)
        /\ nextId' = nextId + 1
        /\ conversations' =
              update_conversation(conversations, tr.req.conv, tr.req.user,
                                  FinishUpdates(tr, new_title))
        /\ turn' = [turn EXCEPT ![t] =
                      [tr EXCEPT !.pc = "y_end", !.finish_pending = FALSE,
                                 !.adapter = Append(@, Event("finish", <<>>)),
                                 !.title_calls = IF first THEN @ + 1 ELSE @,
                                 !.title_failures =
                                     IF first /\ outcome # "title" THEN @ + 1 ELSE @,
                                 !.titles_written =
                                     IF first /\ found THEN Append(@, new_title) ELSE @,
                                 !.conv_updates = @ + 1,
                                 !.events = Append(@, Event("message_end",
                                                   EndData(nextId, new_title)))]]

\* The chunks the backend may deliver: with or without choices, with or
\* without text in the delta, with or without a finish_reason.
Chunks == [choices : BOOLEAN, content : BOOLEAN, finish : BOOLEAN]

\* The text of the next chunk that carries text.
NextDelta == <<Letters[MaxChunks - chunksLeft + 1]>>

\* chat_completion_stream: the events one chunk makes the adapter yield.
AdapterEvents(chunk) ==
    IF ~chunk.choices THEN <<>>
    ELSE (IF chunk.content THEN <<"content_delta">> ELSE <<>>)
         \o (IF chunk.finish THEN <<"finish">> ELSE <<>>)

\* generate() awaiting the adapter, which awaits the backend's stream: the
\* stream raises, ends, or delivers a chunk.  The step runs to the next yield
\* of generate().
stream_next(t) ==
    /\ turn[t].pc = "iter"
    /\ \/ /\ turn' = [turn EXCEPT ![t] = EmitError(t)]
          /\ UNCHANGED <<conversations, messages, nextId, chunksLeft>>
       \/ /\ turn' = [turn EXCEPT ![t] = [@ EXCEPT !.pc = "closed"]]
          /\ UNCHANGED <<conversations, messages, nextId, chunksLeft>>
       \/ /\ chunksLeft > 0
          /\ \E chunk \in Chunks :
                LET evs == AdapterEvents(chunk) IN
                IF evs = <<>>
                THEN UNCHANGED vars
                ELSE /\ chunksLeft' = chunksLeft - 1
                     /\ IF Head(evs) = "content_delta"
                        THEN /\ turn' = [turn EXCEPT ![t] =
                                           [OnContentDelta(turn[t], NextDelta) EXCEPT
                                               !.pc = "y_delta",
                                               !.adapter = Append(@,
                                                   Event("content_delta", NextDelta)),
                                               !.finish_pending = (Len(evs) = 2)]]
                             /\ UNCHANGED <<conversations, messages, nextId>>
                        ELSE \E outcome \in TitleOutcomes :
                                OnFinish(t, turn[t], outcome)

\* generate() resumed after a content_delta: the adapter goes on with the
\* same chunk's finish_reason, or asks the backend for the next chunk.
resume_after_delta(t) ==
    /\ turn[t].pc = "y_delta"
    /\ IF turn[t].finish_pending
       THEN \E outcome \in TitleOutcomes : OnFinish(t, turn[t], outcome)
       ELSE /\ turn' = [turn EXCEPT ![t] = [@ EXCEPT !.pc = "iter"]]
            /\ UNCHANGED <<conversations, messages, nextId>>
    /\ UNCHANGED chunksLeft

\* generate() resumed after message_end: the loops of generate() and of the
\* adapter go on; the adapter asks the backend for the next chunk.
resume_after_end(t) ==
    /\ turn[t].pc = "y_end"
    /\ turn' = [turn EXCEPT ![t] = [@ EXCEPT !.pc = "iter"]]
    /\ UNCHANGED <<conversations, messages, nextId, chunksLeft>>

\* The client disconnects: the response task is cancelled and the generator
\* is closed where it is suspended; CancelledError and GeneratorExit are not
\* caught by `except Exception`.
client_disconnects(t) ==
    /\ turn[t].pc \in {"gen", "y_start", "iter", "y_delta", "y_end"}
    /\ turn' = [turn EXCEPT ![t] = [@ EXCEPT !.pc = "cancelled"]]
    /\ UNCHANGED <<conversations, messages, nextId, chunksLeft>>

\* ---------------------------------------------------------- specification

\* A step of request t.
TurnStep(t) ==
    \/ send_message_stream(t)
    \/ send_message(t)
    \/ chat_completion_returns(t)
    \/ chat_completion_raises(t)
    \/ generate_start(t)
    \/ open_stream(t)
    \/ stream_next(t)
    \/ resume_after_delta(t)
    \/ resume_after_end(t)
    \/ client_disconnects(t)

Next == \E t \in Turns : TurnStep(t)

Spec == Init /\ [][Next]_vars

\* ------------------------------------------- deletion during the turns

\* DELETE /conversations/{id} with CosmosDBService.delete_conversation: the
\* document is deleted in the requester's partition and then the messages of
\* the conversation are deleted; when there is no such document the answer is
\* not found and nothing changes.
delete_conversation(conversation_id, user_id) ==
    /\ get_conversation(conversations, conversation_id, user_id).exists
    /\ conversations' = [conversations EXCEPT ![conversation_id] = NoDoc]
    /\ messages' = delete_messages_by_conversation(messages, conversation_id)
    /\ UNCHANGED <<nextId, chunksLeft, turn>>

\* The turns together with the owner's deletion of a conversation.
NextDelete ==
    \/ \E t \in Turns : TurnStep(t)
    \/ \E c \in ConvIds, u \in Users : delete_conversation(c, u)

SpecDelete == Init /\ [][NextDelete]_vars

\* ------------------------------------- the user's update during the turns

RenamedTitle == "renamed"

OtherSystemPrompt == "other-prompt"

OtherModel == "gpt-4o-mini"

\* ConversationUpdate after model_dump(exclude_none=True): the fields the
\* schema has (title, systemPrompt, model) that the client sent.
ConversationUpdate ==
    {[title |-> RenamedTitle],
     [systemPrompt |-> OtherSystemPrompt, model |-> OtherModel]}

\* PUT /conversations/{id}: not found when the conversation is not the
\* requester's; otherwise the fields sent are written with
\* CosmosDBService.update_conversation.
update_conversation_route(conversation_id, user_id, conversation_data) ==
    /\ get_conversation(conversations, conversation_id, user_id).exists
    /\ conversations' = update_conversation(conversations, conversation_id, user_id,
                                            conversation_data)
    /\ UNCHANGED <<messages, nextId, chunksLeft, turn>>

\* The request the clients send while the conversation is updated: a text
\* for the owner's conversation.
UpdateRequest == Request("c1", "u1", <<"h">>, <<>>)

\* The steps of TurnStep, the arriving request being UpdateRequest, together
\* with the updates of a conversation by its owner or by another user.
NextUpdate ==
    \/ \E t \in Turns :
          \/ StartTurn(t, UpdateRequest, "stream", "gen")
          \/ StartTurn(t, UpdateRequest, "plain", "ns_call")
          \/ chat_completion_returns(t)
          \/ chat_completion_raises(t)
          \/ generate_start(t)
          \/ open_stream(t)
          \/ stream_next(t)
          \/ resume_after_delta(t)
          \/ resume_after_end(t)
          \/ client_disconnects(t)
    \/ \E c \in ConvIds, u \in Users, d \in ConversationUpdate :
          update_conversation_route(c, u, d)

SpecUpdate == Init /\ [][NextUpdate]_vars

\* ------------------------------------------------- three requests

\* Three requests, so that one can start and end between the start and the
\* end of another while a third has already ended.
ThreeTurns == {1, 2, 3}

InitThree ==
    /\ conversations = [c \in ConvIds |->
                           IF c = "c1" THEN create_conversation("u1", UserTitle)
                           ELSE NoDoc]
    /\ messages = <<>>
    /\ nextId = 1
    /\ chunksLeft = MaxChunks
    /\ turn = [t \in ThreeTurns |-> IdleTurn]

\* The request all three clients send: a text for the owner's conversation.
TextRequest == Request("c1", "u1", <<"h">>, <<>>)

\* The steps of TurnStep, the arriving request being TextRequest.
NextThree ==
    \E t \in ThreeTurns :
        \/ StartTurn(t, TextRequest, "stream", "gen")
        \/ StartTurn(t, TextRequest, "plain", "ns_call")
        \/ chat_completion_returns(t)
        \/ chat_completion_raises(t)
        \/ generate_start(t)
        \/ open_stream(t)
        \/ stream_next(t)
        \/ resume_after_delta(t)
        \/ resume_after_end(t)
        \/ client_disconnects(t)

SpecThree == InitThree /\ [][NextThree]_vars

\* ------------------------------------------------ a long conversation

\* How many turns the conversation has completed before the request arrives:
\* none, one, as many as fill the history window, and one more.
PriorTurns == {0, 1, 10, 11}

\* The messages of k completed turns: user and assistant messages in turn,
\* with identifiers 1 .. 2k in creation order (request 0 stands for the
\* earlier requests).
PriorMessages(k) ==
    [i \in 1..(2 * k) |->
        [id |-> i, conversationId |-> "c1",
         role |-> IF i % 2 = 1 THEN "user" ELSE "assistant",
         content |-> IF i % 2 = 1 THEN <<"h">> ELSE <<"r">>,
         attachments |-> <<>>, turn |-> 0]]

\* The conversation after k turns of send_message: 2k messages, messageCount 2k.
InitLong ==
    \E k \in PriorTurns :
        /\ conversations = [c \in ConvIds |->
               IF c = "c1"
               THEN [create_conversation("u1", UserTitle) EXCEPT !.messageCount = 2 * k]
               ELSE NoDoc]
        /\ messages = PriorMessages(k)
        /\ nextId = 2 * k + 1
        /\ chunksLeft = MaxChunks
        /\ turn = [t \in Turns |-> IdleTurn]

\* One more request.
NextLong == TurnStep(1)

SpecLong == InitLong /\ [][NextLong]_vars

\* ------------------------------------- the assembly of the context

\* The context a streaming request sends to the completion backend is a
\* function of the request, the conversation document, the history and what
\* the downloads return.  Here these inputs are drawn from bounded sets and
\* two requests with the same inputs run generate() up to the backend call.

NoteAtt ==
    [id |-> "f2", type |-> "file", url |-> <<"W">>, mimeType |-> <<"text/markdown">>,
     fileName |-> <<"m", ".", "m", "d">>]

\* A file declared as application/octet-stream whose name has no text extension.
BinAtt ==
    [id |-> "f3", type |-> "file", url |-> <<"X">>,
     mimeType |-> <<"application/octet-stream">>,
     fileName |-> <<"d", ".", "b", "i", "n">>]

\* A file that is no text by its MIME type and by its name.
PdfAtt ==
    [id |-> "f4", type |-> "file", url |-> <<"Y">>, mimeType |-> <<"application/pdf">>,
     fileName |-> <<"d", ".", "p", "d", "f">>]

\* An attachment of kind image with a text MIME type and a text file name.
ImageTxtAtt ==
    [id |-> "i2", type |-> "image", url |-> <<"Z">>, mimeType |-> <<"text/plain">>,
     fileName |-> <<"o", ".", "t", "x", "t">>]

\* A text file without a URL.
NoUrlAtt ==
    [id |-> "f5", type |-> "file", url |-> None, mimeType |-> <<"text/plain">>,
     fileName |-> <<"q", ".", "t", "x", "t">>]

BuildAttachmentKinds ==
    {ImageAtt, TextAtt, NoteAtt, BinAtt, PdfAtt, ImageTxtAtt, NoUrlAtt}

\* The attachment lists: none, one or two attachments.
BuildAttachments ==
    {<<>>} \cup {<<a>> : a \in BuildAttachmentKinds}
           \cup {<<a, b>> : a \in BuildAttachmentKinds, b \in BuildAttachmentKinds}

BuildContents == {<<>>, <<" ">>, <<"h">>}

\* The requests the schema accepts.
BuildRequests ==
    {r \in {Request("c1", "u1", c, a) : c \in BuildContents, a \in BuildAttachments} :
        validate_content_or_attachments(r)}

StoredMessage(id, role, content) ==
    [id |-> id, conversationId |-> "c1", role |-> role, content |-> content,
     attachments |-> <<>>, turn |-> 0]

\* The histories: empty, a completed turn, and histories that hold a
\* system-role message (the handlers store none; the message schema allows it).
BuildHistories ==
    { <<>>,
      <<StoredMessage(1, "user", <<"h">>), StoredMessage(2, "assistant", <<"r">>)>>,
      <<StoredMessage(1, "system", <<"s">>), StoredMessage(2, "user", <<"h">>),
        StoredMessage(3, "assistant", <<"r">>)>>,
      <<StoredMessage(1, "user", <<"h">>), StoredMessage(2, "system", <<"s">>),
        StoredMessage(3, "assistant", <<"r">>), StoredMessage(4, "user", <<"g">>)>> }

\* Two streaming requests with the same request body and the same history
\* have been accepted and their generators are about to run.
InitBuild ==
    \E r \in BuildRequests, h \in BuildHistories :
        LET conversation ==
                [create_conversation("u1", UserTitle) EXCEPT !.messageCount = Len(h)]
        IN  /\ conversations = [c \in ConvIds |-> IF c = "c1" THEN conversation ELSE NoDoc]
            /\ messages = UserMessage(UserMessage(h, Len(h) + 1, r, 1), Len(h) + 2, r, 2)
            /\ nextId = Len(h) + 3
            /\ chunksLeft = MaxChunks
            /\ turn = [t \in Turns |->
                          [IdleTurn EXCEPT !.pc = "gen", !.kind = "stream", !.req = r,
                                           !.conversation = conversation,
                                           !.history = h,
                                           !.user_message_id = Len(h) + t]]

NextBuild == \E t \in Turns : generate_start(t) \/ open_stream(t)

SpecBuild == InitBuild /\ [][NextBuild]_vars

\* ------------------------------------------------------- reading the state

Arrived(t) == turn[t].pc # "idle"

\* The request passed the schema and the conversation check.
Accepted(t) == turn[t].pc \notin {"idle", "rejected", "not_found"}

IsStream(t) == turn[t].kind = "stream"

\* The messages a request created, in creation order.
MsgsOf(t, role) ==
    SelectSeq(messages, LAMBDA m : m.turn = t /\ m.role = role)

OfType(evs, type) == SelectSeq(evs, LAMBDA e : e.type = type)

\* The payloads of the content_delta events of evs, joined in order.
RECURSIVE DeltaText(_)
DeltaText(evs) ==
    IF evs = <<>> THEN <<>>
    ELSE IF Head(evs).type = "content_delta"
         THEN Head(evs).payload \o DeltaText(Tail(evs))
         ELSE DeltaText(Tail(evs))

TerminalEvents == {"message_end", "error"}

\* The generator of a streaming turn has run to its end.
GeneratorEnded(t) == IsStream(t) /\ turn[t].pc \in {"closed", "errored"}

\* The user message of request t is in the container as it was submitted.
UserMessagePersisted(t) ==
    \E i \in 1..Len(messages) :
        /\ messages[i].id = turn[t].user_message_id
        /\ messages[i].turn = t
        /\ messages[i].role = "user"
        /\ messages[i].conversationId = turn[t].req.conv
        /\ messages[i].content = turn[t].req.content
        /\ messages[i].attachments = turn[t].req.attachments

\* ------------------------------------------------------------------- claims

\* C1: on both paths the user message of an accepted request is in the
\* messages container in every state from the start of the turn on: before the
\* completion backend is called (the backend is only ever called by an accepted
\* request) and after it, whether the call succeeds, raises before the first
\* delta or raises mid-stream.
C1_DurabilityFirst ==
    \A t \in Turns :
        /\ turn[t].backend_calls > 0 => Accepted(t)
        /\ Accepted(t) => UserMessagePersisted(t)

\* A streaming turn whose backend raised after a delta and a non-streaming
\* turn whose completion call raised, both with their user message saved.
C1_Witness ==
    \E t, u \in Turns :
        /\ IsStream(t) /\ turn[t].pc = "errored"
        /\ OfType(turn[t].events, "content_delta") # <<>>
        /\ UserMessagePersisted(t)
        /\ turn[u].pc = "ns_failed" /\ turn[u].backend_calls = 1
        /\ UserMessagePersisted(u)

\* A streaming turn that got a message_end and whose generator has ended.
StreamSucceeded(t) ==
    /\ IsStream(t) /\ turn[t].pc = "closed"
    /\ OfType(turn[t].events, "message_end") # <<>>

\* A streaming turn whose last event is message_end, or a non-streaming turn
\* that returned its response.
Successful(t) ==
    \/ /\ IsStream(t) /\ turn[t].pc = "closed"
       /\ turn[t].events[Len(turn[t].events)].type = "message_end"
    \/ turn[t].pc = "ns_done"

\* No other request has written the conversation.
OnlyWriter(t) == \A u \in Turns \ {t} : turn[u].conv_updates = 0

\* C2: after a successful turn messageCount is the value the turn read at its
\* start plus 2 (as long as no other request wrote the conversation), and the
\* turn has exactly one assistant message, holding the full generated text.
C2_SuccessfulTurnAddsTwo ==
    \A t \in Turns :
        Successful(t) =>
            /\ OnlyWriter(t) =>
                  conversations[turn[t].req.conv].messageCount
                      = turn[t].conversation.messageCount + 2
            /\ Len(MsgsOf(t, "assistant")) = 1
            /\ MsgsOf(t, "assistant")[1].content = turn[t].full_content

\* C3: when the generator of a streaming turn has ended, the events the client
\* received end with a terminal event (message_end or error) and hold no
\* other terminal event.
C3_OneTerminalEventLast ==
    \A t \in Turns :
        GeneratorEnded(t) =>
            LET evs == turn[t].events IN
            /\ evs[Len(evs)].type \in TerminalEvents
            /\ \A i \in 1..(Len(evs) - 1) : evs[i].type \notin TerminalEvents

\* What the adapter yielded is k >= 0 content deltas and then it raised.
RaisedAfterDeltasOnly(t) ==
    LET a == turn[t].adapter IN
    /\ IsStream(t)
    /\ a # <<>>
    /\ a[Len(a)].type = "raise"
    /\ \A i \in 1..(Len(a) - 1) : a[i].type = "content_delta"

\* C4: when the adapter raises after k >= 0 content deltas (and no finish), the
\* client has received message_start with the user message's id, those k
\* deltas in order and one error event; the turn has no assistant message, has
\* not updated the conversation (messageCount is the value read at the start
\* unless another request wrote it), and its user message is still stored.
C4_RaiseAfterDeltas ==
    \A t \in Turns :
        RaisedAfterDeltasOnly(t) =>
            LET a == turn[t].adapter
                evs == turn[t].events
            IN  /\ Len(evs) = Len(a) + 1
                /\ evs[1] = Event("message_start", <<turn[t].user_message_id>>)
                /\ SubSeq(evs, 2, Len(evs) - 1) = SubSeq(a, 1, Len(a) - 1)
                /\ evs[Len(evs)].type = "error"
                /\ MsgsOf(t, "assistant") = <<>>
                /\ turn[t].conv_updates = 0
                /\ OnlyWriter(t) =>
                      conversations[turn[t].req.conv].messageCount
                          = turn[t].conversation.messageCount
                /\ UserMessagePersisted(t)

\* The adapter raised after two deltas.
C4_Witness ==
    \E t \in Turns :
        /\ RaisedAfterDeltasOnly(t)
        /\ Len(turn[t].adapter) = 3
        /\ turn[t].pc = "errored"

\* C5: whenever the client of a streaming turn has received an error event,
\* the turn has no assistant message and has not updated the conversation.
C5_ErrorOnlyFromStreaming ==
    \A t \in Turns :
        OfType(turn[t].events, "error") # <<>> =>
            /\ MsgsOf(t, "assistant") = <<>>
            /\ turn[t].conv_updates = 0

\* C6: for a successful streaming turn, the content_delta payloads the client
\* received, joined in order, are the content of the turn's assistant message.
C6_DeltasAreTheMessage ==
    \A t \in Turns :
        StreamSucceeded(t) =>
            \A i \in 1..Len(MsgsOf(t, "assistant")) :
                MsgsOf(t, "assistant")[i].content = DeltaText(turn[t].events)

\* The places of the finish events in what the adapter yielded.
FinishPlaces(a) == {i \in 1..Len(a) : a[i].type = "finish"}

\* The place of the j-th finish event.
FinishPlace(a, j) ==
    CHOOSE i \in FinishPlaces(a) : Cardinality({k \in FinishPlaces(a) : k <= i}) = j

\* C7: a streaming turn has one assistant message per finish the adapter
\* delivered and no other: each holds all the deltas the adapter delivered
\* before that finish; a turn that was cancelled, or whose adapter raised or
\* just stopped, before any finish has no assistant message.
C7_NeverPartiallyPersisted ==
    \A t \in Turns :
        IsStream(t) =>
            LET a == turn[t].adapter
                msgs == MsgsOf(t, "assistant")
            IN  /\ Len(msgs) = Cardinality(FinishPlaces(a))
                /\ \A j \in 1..Len(msgs) :
                      msgs[j].content = DeltaText(SubSeq(a, 1, FinishPlace(a, j)))
                /\ (FinishPlaces(a) = {} /\ turn[t].pc \in {"cancelled", "errored", "closed"})
                      => msgs = <<>>

\* A client disconnected while text had been accumulated and the finish of
\* the same chunk was still to come: nothing of it is stored.  Another turn
\* stored its two deltas at its finish.
C7_Witness ==
    \E t, u \in Turns :
        /\ IsStream(t) /\ turn[t].pc = "cancelled"
        /\ turn[t].full_content # <<>>
        /\ MsgsOf(t, "assistant") = <<>>
        /\ IsStream(u) /\ Len(MsgsOf(u, "assistant")) = 1
        /\ MsgsOf(u, "assistant")[1].content # <<>>

\* C8: an accepted request has created exactly one user message and at most
\* one assistant message.
C8_OneUserAtMostOneAssistant ==
    \A t \in Turns :
        Accepted(t) =>
            /\ Len(MsgsOf(t, "user")) = 1
            /\ Len(MsgsOf(t, "assistant")) <= 1

\* The conversation the request names does not exist or is not the requester's.
TargetMissing(r) ==
    ~(conversations[r.conv].exists /\ conversations[r.conv].userId = r.user)

\* The request has had no effect: no message, no conversation update, no
\* download, no call of the completion or the title backend.
NoSideEffect(t) ==
    /\ \A i \in 1..Len(messages) : messages[i].turn # t
    /\ turn[t].conv_updates = 0
    /\ turn[t].fetched = <<>>
    /\ turn[t].backend_calls = 0
    /\ turn[t].title_calls = 0
    /\ turn[t].events = <<>>

\* C9: a request, streaming or not, that passes the schema and names a
\* conversation that does not exist or belongs to another user ends as not
\* found, and has had no effect.  (A request the schema refuses never reaches
\* the conversation check; it has no effect either.)
C9_NotFoundBeforeSideEffects ==
    \A t \in Turns :
        (Arrived(t) /\ TargetMissing(turn[t].req)) =>
            /\ validate_content_or_attachments(turn[t].req) => turn[t].pc = "not_found"
            /\ turn[t].pc \in {"not_found", "rejected"}
            /\ NoSideEffect(t)

\* A request with a text file for somebody else's conversation was refused,
\* while the other request, accepted, downloaded its text file.
C9_Witness ==
    \E t, u \in Turns :
        /\ turn[t].pc = "not_found"
        /\ turn[t].req.conv = "c1" /\ turn[t].req.user = "u2"
        /\ turn[t].req.attachments # <<>>
        /\ turn[u].fetched # <<>>

\* The request has blank text and no attachment.
BlankRequest(r) == Strip(r.content) = <<>> /\ Len(r.attachments) = 0

\* C10: a request whose text is empty or only whitespace and that carries no
\* attachment is refused, and has had no effect: no user message is created and
\* no conversation is updated.
C10_BlankRequestRejected ==
    \A t \in Turns :
        (Arrived(t) /\ BlankRequest(turn[t].req)) =>
            /\ turn[t].pc = "rejected"
            /\ NoSideEffect(t)

\* A whitespace-only request for the requester's own conversation was refused.
C10_Witness ==
    \E t \in Turns :
        /\ turn[t].pc = "rejected"
        /\ turn[t].req.content = <<" ">>
        /\ turn[t].req.conv = "c1" /\ turn[t].req.user = "u1"

\* A streaming turn that read messageCount 0 at its start and whose last event
\* is message_end.
FirstTurnSucceeded(t) ==
    /\ turn[t].pc = "closed"
    /\ IsStream(t)
    /\ turn[t].conversation.messageCount = 0
    /\ turn[t].events[Len(turn[t].events)].type = "message_end"

\* C11: a streaming turn that starts with messageCount 0 and completes
\* successfully has made a title attempt and has no error event; when its
\* title attempts failed (the title call raised or returned nothing) and no
\* other request wrote the conversation, the stored title is the title the
\* turn read at its start and messageCount is 2.
C11_FailedTitleKeepsTitle ==
    \A t \in Turns :
        FirstTurnSucceeded(t) =>
            /\ turn[t].title_calls >= 1
            /\ OfType(turn[t].events, "error") = <<>>
            /\ (turn[t].title_failures = turn[t].title_calls /\ OnlyWriter(t)) =>
                  /\ conversations[turn[t].req.conv].title = turn[t].conversation.title
                  /\ conversations[turn[t].req.conv].messageCount = 2

\* The titles the message_end events of evs carry, in order.
RECURSIVE EndTitles(_)
EndTitles(evs) ==
    IF evs = <<>> THEN <<>>
    ELSE IF Head(evs).type = "message_end" /\ Len(Head(evs).payload) = 2
         THEN <<Head(evs).payload[2]>> \o EndTitles(Tail(evs))
         ELSE EndTitles(Tail(evs))

\* C12: the titles carried by the message_end events of a streaming turn are
\* the titles the turn's conversation updates stored, one for one and in
\* order: a title in message_end was stored by the turn before the event was
\* sent, and a title the turn stored is carried by its message_end.
C12_EndTitleIsPersisted ==
    \A t \in Turns :
        EndTitles(turn[t].events) = turn[t].titles_written

\* The requests on conversation c that called the title generator.
TitleCallers(c) ==
    {t \in Turns : turn[t].req.conv = c /\ turn[t].title_calls > 0}

\* C13: on every conversation at most one request has called the title
\* generator, however the requests on it follow each other or overlap.
C13_TitleOnlyOnFirstTurn ==
    \A c \in ConvIds : Cardinality(TitleCallers(c)) <= 1

\* A step does not lower the messageCount of a conversation that it keeps.
CountDoesNotDecrease ==
    \A c \in ConvIds :
        (conversations[c].exists /\ conversations'[c].exists) =>
            conversations'[c].messageCount >= conversations[c].messageCount

\* C14: no step of any request, whatever the requests on a conversation and
\* however they overlap, lowers the conversation's stored messageCount.
C14_CountMonotonic == [][CountDoesNotDecrease]_vars

\* Two different requests on one conversation that read the same messageCount
\* at their start (the second started before the first wrote) and both ended
\* successfully.
BothSucceededFromSameCount(t, u) ==
    /\ t # u
    /\ Successful(t) /\ Successful(u)
    /\ turn[t].req.conv = turn[u].req.conv
    /\ turn[t].conversation.messageCount = turn[u].conversation.messageCount

\* C15: nothing serialises the read-modify-write of messageCount: when two
\* requests on one conversation overlap so that both read the same count, and
\* both end successfully, the stored messageCount is that count plus 2, not
\* plus 4, although the four messages of the two turns are stored.
C15_LostUpdate ==
    \A t, u \in Turns :
        BothSucceededFromSameCount(t, u) =>
            conversations[turn[t].req.conv].messageCount
                = turn[t].conversation.messageCount + 2

\* Two overlapping streaming turns have ended successfully, each with its
\* user message and one assistant message stored: four messages, and a
\* messageCount of 2.
C15_Witness ==
    \E t, u \in Turns :
        /\ BothSucceededFromSameCount(t, u)
        /\ IsStream(t) /\ IsStream(u)
        /\ Len(MsgsOf(t, "user")) = 1 /\ Len(MsgsOf(t, "assistant")) = 1
        /\ Len(MsgsOf(u, "user")) = 1 /\ Len(MsgsOf(u, "assistant")) = 1
        /\ Len(messages) = 4
        /\ conversations[turn[t].req.conv].messageCount
              = turn[t].conversation.messageCount + 2

\* The messages stored for conversation c.
MessagesOfConversation(c) ==
    SelectSeq(messages, LAMBDA m : m.conversationId = c)

\* C16: a conversation that is not stored (it never existed, or its deletion
\* has returned success: a deleted conversation is never created again) has
\* no stored message, in the state the deletion leaves and in every later
\* state, even when a turn on it was in flight during the deletion.
C16_DeleteCascades ==
    \A c \in ConvIds :
        ~conversations[c].exists => MessagesOfConversation(c) = <<>>

\* The messages of the request's conversation that were stored when the
\* request arrived: those created before its user message.
StoredAtStart(t) ==
    SelectSeq(messages, LAMBDA m : /\ m.conversationId = turn[t].req.conv
                                   /\ m.id < turn[t].user_message_id)

\* The last n entries of a sequence, all of them when there are fewer.
LastN(seq, n) ==
    IF Len(seq) <= n THEN seq ELSE SubSeq(seq, Len(seq) - n + 1, Len(seq))

\* C17: the history of an accepted request is the 20 most recent messages
\* its conversation had when the request arrived (all of them when there
\* were fewer), oldest first.
C17_HistoryIsMostRecent ==
    \A t \in Turns :
        Accepted(t) => turn[t].history = LastN(StoredAtStart(t), HistoryLimit)

\* The generator of a streaming request has resolved the attachments.
Resolved(t) == IsStream(t) /\ turn[t].events # <<>>

\* The places of the attachments whose download returned a text.
Downloaded(t) ==
    {i \in 1..Len(turn[t].fetch_results) :
        turn[t].fetch_results[i] \notin {NotFetched, None, <<>>}}

\* The j-th smallest member of a set of numbers.
NthOf(S, j) == CHOOSE i \in S : Cardinality({k \in S : k <= i}) = j

\* C18: once a streaming request has resolved its attachments, its text
\* blocks are exactly those of the attachments whose download returned a
\* text, in attachment-list order (a failed or empty download gives no
\* block), and they are the blocks of the enhanced text; the generator has
\* only sent message_start when it is about to call the backend, and an error
\* event is only ever sent after the backend raised.
C18_FailedFetchAddsNoBlock ==
    \A t \in Turns :
        Resolved(t) =>
            LET atts  == turn[t].req.attachments
                files == turn[t].text_file_contents
            IN  /\ Len(files) = Cardinality(Downloaded(t))
                /\ \A j \in 1..Len(files) :
                      files[j] = [fileName |-> atts[NthOf(Downloaded(t), j)].fileName,
                                  content |-> turn[t].fetch_results[NthOf(Downloaded(t), j)]]
                /\ IF files = <<>>
                   THEN turn[t].enhanced_message \in {turn[t].req.content, DefaultImagePrompt}
                   ELSE EndsWith(turn[t].enhanced_message, FileContext(files, Len(files)))
                /\ turn[t].pc = "y_start" =>
                      turn[t].events = <<Event("message_start", <<turn[t].user_message_id>>)>>
                /\ OfType(turn[t].events, "error") # <<>> =>
                      /\ turn[t].backend_calls = 1
                      /\ turn[t].adapter # <<>>
                      /\ turn[t].adapter[Len(turn[t].adapter)].type = "raise"

\* A request with two text attachments: the download of the first failed, the
\* second one's block is the only block, and the backend has been called and
\* has granted the stream.
C18_Witness ==
    \E t \in Turns :
        /\ turn[t].req.attachments = <<TextAtt, NoteAtt>>
        /\ turn[t].fetch_results = <<None, <<"F">>>>
        /\ turn[t].text_file_contents =
              <<[fileName |-> NoteAtt.fileName, content |-> <<"F">>]>>
        /\ turn[t].pc = "iter" /\ turn[t].backend_calls = 1
        /\ OfType(turn[t].events, "error") = <<>>

\* str.startswith(prefix)
StartsWith(s, prefix) ==
    /\ Len(s) >= Len(prefix)
    /\ SubSeq(s, 1, Len(prefix)) = prefix

\* C19: in the enhanced text of a streaming request, when the request's text
\* is blank and it has an image the text is the default image instruction
\* (followed by the file blocks, if any); and when the request's text is empty
\* and at least one text attachment was resolved, the enhanced text is the
\* analyze-the-files instruction followed by one block per resolved text
\* attachment in attachment-list order.
C19_EnhancedContent ==
    \A t \in Turns :
        Resolved(t) =>
            LET content == turn[t].req.content
                images  == turn[t].image_attachments
                files   == turn[t].text_file_contents
                message == turn[t].enhanced_message
            IN  /\ (Strip(content) = <<>> /\ images # <<>>) =>
                      /\ StartsWith(message, DefaultImagePrompt)
                      /\ files = <<>> => message = DefaultImagePrompt
                /\ (content = <<>> /\ files # <<>>) =>
                      message = AnalyzeFilesPrompt \o FileContext(files, Len(files))

\* The request has handed its message list to the completion backend.
CalledBackend(t) == turn[t].api_messages # <<>>

\* The history entries with a user or assistant role, in their order.
Admitted(history) ==
    SelectSeq(history, LAMBDA e : e.role \in {"user", "assistant"})

\* The text of the current user entry: the enhanced text on the streaming
\* path, the request's text on the non-streaming path.
UserText(t) ==
    IF IsStream(t) THEN turn[t].enhanced_message ELSE turn[t].req.content

\* What the message list is built from.
BuildInputs(t) ==
    <<turn[t].kind, turn[t].conversation.systemPrompt, turn[t].history,
      UserText(t), turn[t].req.attachments, turn[t].image_attachments>>

\* C20: the message list a request hands to the completion backend is the
\* system prompt entry, then the history entries with a user or assistant
\* role in their original order (system-role entries are left out), then the
\* current user entry with the user text (the enhanced text of a streaming
\* request); two requests with the same inputs hand over the same list.
C20_MessageListOrder ==
    /\ \A t \in Turns :
          CalledBackend(t) =>
              LET m == turn[t].api_messages
                  h == Admitted(turn[t].history)
              IN  /\ Len(m) = Len(h) + 2
                  /\ m[1].role = "system"
                  /\ m[1].content = <<turn[t].conversation.systemPrompt>>
                  /\ \A i \in 1..Len(h) :
                        /\ m[i + 1].role = h[i].role
                        /\ m[i + 1].content = h[i].content
                  /\ m[Len(m)].role = "user"
                  /\ m[Len(m)].content = UserText(t)
    /\ \A t, u \in Turns :
          (CalledBackend(t) /\ CalledBackend(u) /\ BuildInputs(t) = BuildInputs(u))
              => turn[t].api_messages = turn[u].api_messages

\* Two requests with the same inputs have handed over their lists; the
\* history holds a system-role entry between a user and an assistant entry,
\* and the list has the system prompt, the three other entries and the
\* current user entry.
C20_Witness ==
    \E t, u \in Turns :
        /\ t # u
        /\ CalledBackend(t) /\ CalledBackend(u)
        /\ BuildInputs(t) = BuildInputs(u)
        /\ Len(turn[t].history) = 4
        /\ turn[t].history[2].role = "system"
        /\ Len(turn[t].api_messages) = 5
        /\ turn[t].image_attachments # <<>>

\* The image references of a request: its attachments of kind image that
\* carry a URL, in list order.
ImageRefs(r) ==
    SelectSeq(r.attachments, LAMBDA a : a.type = "image" /\ Truthy(a.url))

\* The URLs of a sequence of attachments.
UrlsOf(atts) == [i \in 1..Len(atts) |-> atts[i].url]

\* C21: on both paths the current user entry of the message list handed to
\* the completion backend is a list of parts exactly when the request has
\* an image reference, and its image parts are the URLs of the image
\* references in list order; without an image reference it is a plain text.
C21_MultipartIffImage ==
    \A t \in Turns :
        CalledBackend(t) =>
            LET last == turn[t].api_messages[Len(turn[t].api_messages)]
                refs == ImageRefs(turn[t].req)
            IN  /\ last.parts = (refs # <<>>)
                /\ last.image_urls = UrlsOf(refs)

\* The file name ends in a recognised text extension.
HasTextExtension(att) ==
    /\ Truthy(att.fileName)
    /\ EndsWith(att.fileName, DotMd) \/ EndsWith(att.fileName, DotTxt)

\* The attachment is a text by the stated rule: a plain-text or markdown MIME
\* type, octet-stream with a text extension, or a text extension.
StatedText(att) ==
    \/ att.mimeType \in {<<"text/plain">>, <<"text/markdown">>}
    \/ att.mimeType = <<"application/octet-stream">> /\ HasTextExtension(att)
    \/ HasTextExtension(att)

\* The attachment is an image by the stated rule: not a text, of kind image
\* and with a URL.
StatedImage(att) ==
    ~StatedText(att) /\ att.type = "image" /\ Truthy(att.url)

\* C22: once a streaming request has resolved its attachments, the
\* attachments it downloaded are exactly those that are a text by the stated
\* rule, and its image references are exactly the attachments that are an
\* image by the stated rule, in list order; the others contribute nothing.
C22_Classification ==
    \A t \in Turns :
        Resolved(t) =>
            LET atts == turn[t].req.attachments IN
            /\ \A i \in 1..Len(atts) :
                  (turn[t].fetch_results[i] # NotFetched) <=> StatedText(atts[i])
            /\ UrlsOf(turn[t].image_attachments)
                  = UrlsOf(SelectSeq(atts, StatedImage))

\* C23: when the backend's stream has ended without raising, what the adapter
\* yielded is zero or more content_delta events followed by exactly one
\* finish event, which is its last event.
C23_OneFinishLast ==
    \A t \in Turns :
        (IsStream(t) /\ turn[t].pc = "closed") =>
            LET a == turn[t].adapter IN
            /\ a # <<>>
            /\ FinishPlaces(a) = {Len(a)}
            /\ \A i \in 1..(Len(a) - 1) : a[i].type = "content_delta"

\* The generator of a streaming turn has run its first step.
GeneratorStarted(t) ==
    /\ IsStream(t)
    /\ turn[t].pc \in {"y_start", "iter", "y_delta", "y_end", "closed", "errored"}

\* C24: the events of a streaming turn hold at most one message_start; once
\* the generator has started (and whenever the client has received anything)
\* there is exactly one, it is the first event, it carries the id of the
\* turn's user message, and that message is in the container.
C24_OneMessageStartFirst ==
    \A t \in Turns :
        IsStream(t) =>
            LET evs == turn[t].events IN
            /\ Len(OfType(evs, "message_start")) <= 1
            /\ GeneratorStarted(t) => evs # <<>>
            /\ evs # <<>> =>
                  /\ evs[1] = Event("message_start", <<turn[t].user_message_id>>)
                  /\ Len(OfType(evs, "message_start")) = 1
                  /\ UserMessagePersisted(t)

\* A streaming turn that ran to its end after message_start, a delta and
\* message_end.
C24_Witness ==
    \E t \in Turns :
        /\ IsStream(t) /\ turn[t].pc = "closed"
        /\ Len(turn[t].events) >= 3
        /\ turn[t].events[1].type = "message_start"
        /\ turn[t].events[Len(turn[t].events)].type = "message_end"

\* C25: in every state of a streaming turn the content_delta events the
\* client has received are the content_delta events the adapter has yielded,
\* in the same order: the k-th delta is with the client when the generator
\* is suspended at its yield, before the adapter is asked for the next event.
C25_DeltasInOrderUnbuffered ==
    \A t \in Turns :
        IsStream(t) =>
            OfType(turn[t].events, "content_delta")
                = OfType(turn[t].adapter, "content_delta")

\* The generator is suspended at the yield of its second delta: both deltas
\* are with the client and no finish has been seen.
C25_Witness ==
    \E t \in Turns :
        /\ IsStream(t) /\ turn[t].pc = "y_delta"
        /\ Len(OfType(turn[t].events, "content_delta")) = 2
        /\ FinishPlaces(turn[t].adapter) = {}
        /\ OfType(turn[t].events, "message_end") = <<>>

\* The non-streaming request has called the completion backend and the call
\* is over.
PlainCallOver(t) == turn[t].kind = "plain" /\ turn[t].backend_calls > 0

\* C26: a non-streaming request whose completion call is over has returned
\* its response exactly when it has created its assistant message; otherwise
\* it has failed, and then its user message is still stored, it has no
\* assistant message and it has not updated the conversation (messageCount is
\* the value read at the start unless another request wrote it).
C26_PlainFailurePropagates ==
    \A t \in Turns :
        PlainCallOver(t) =>
            /\ turn[t].pc \in {"ns_done", "ns_failed"}
            /\ (turn[t].pc = "ns_done") <=> (MsgsOf(t, "assistant") # <<>>)
            /\ turn[t].pc = "ns_failed" =>
                  /\ UserMessagePersisted(t)
                  /\ MsgsOf(t, "assistant") = <<>>
                  /\ turn[t].conv_updates = 0
                  /\ OnlyWriter(t) =>
                        conversations[turn[t].req.conv].messageCount
                            = turn[t].conversation.messageCount

\* A non-streaming request failed after another request had completed a turn
\* of the same conversation.
C26_Witness ==
    \E t, u \in Turns :
        /\ turn[t].pc = "ns_failed"
        /\ turn[t].conversation.messageCount = 2
        /\ conversations[turn[t].req.conv].messageCount = 2
        /\ Successful(u)
        /\ UserMessagePersisted(t)

\* The step is a step of a request (every such step moves the request on).
RequestStep == turn' # turn

\* The step changes the title of conversation c.
TitleChanges(c) == conversations'[c].title # conversations[c].title

\* The request that takes the step is a streaming request for conversation c
\* that read messageCount 0 at its start.
FirstStreamingTurnSteps(c) ==
    \E t \in Turns :
        /\ turn'[t] # turn[t]
        /\ turn[t].kind = "stream"
        /\ turn[t].req.conv = c
        /\ turn[t].conversation.messageCount = 0

\* C27: no step creates a conversation, removes one or changes its owner (the
\* identifier is the key under which the document is kept); a step of the
\* user's update leaves messageCount as it is; a step of a request leaves the
\* system prompt and the model as they are, and changes the title only when
\* the request is a streaming request that read messageCount 0 at its start.
C27_MutationOwnership ==
    [][\A c \in ConvIds :
          /\ conversations'[c].exists = conversations[c].exists
          /\ conversations[c].exists =>
                /\ conversations'[c].userId = conversations[c].userId
                /\ ~RequestStep =>
                      conversations'[c].messageCount = conversations[c].messageCount
                /\ RequestStep =>
                      /\ conversations'[c].systemPrompt = conversations[c].systemPrompt
                      /\ conversations'[c].model = conversations[c].model
                      /\ TitleChanges(c) => FirstStreamingTurnSteps(c)]_vars

\* The user renamed the conversation and changed its system prompt while the
\* first streaming turn was under way (the second request started in between
\* and read the new title, the new prompt and messageCount 0); the first turn
\* then ended and wrote its title and messageCount 2, and the prompt is the
\* user's.
C27_Witness ==
    \E t, u \in Turns :
        /\ IsStream(t) /\ turn[t].pc = "closed"
        /\ turn[t].conversation.title = UserTitle
        /\ turn[t].titles_written = <<GeneratedTitle>>
        /\ Accepted(u) /\ MsgsOf(u, "assistant") = <<>>
        /\ turn[u].conversation.title = RenamedTitle
        /\ turn[u].conversation.systemPrompt = OtherSystemPrompt
        /\ turn[u].conversation.messageCount = 0
        /\ conversations[turn[t].req.conv].title = GeneratedTitle
        /\ conversations[turn[t].req.conv].systemPrompt = OtherSystemPrompt
        /\ conversations[turn[t].req.conv].messageCount = 2

\* The streaming turn is over for the client: message_end or error has been
\* sent, or the generator was cancelled.
TerminalState(t) ==
    /\ IsStream(t)
    /\ \/ turn[t].pc \in {"y_end", "errored", "cancelled"}
       \/ turn[t].pc = "closed" /\ OfType(turn[t].events, "message_end") # <<>>

\* An assistant message of the turn is in the container.
AssistantPersisted(t) == MsgsOf(t, "assistant") # <<>>

\* The turn has written messageCount to the conversation document: it called
\* update_conversation and the document is there (a document that is there
\* has been there all along, identifiers are not used twice).
CountAdvanced(t) ==
    /\ turn[t].conv_updates > 0
    /\ conversations[turn[t].req.conv].exists

\* C28: in every terminal state of a streaming turn, the turn's assistant
\* message is persisted exactly when the turn has advanced the conversation's
\* messageCount.
C28_FinalizeAllOrNothing ==
    \A t \in Turns :
        TerminalState(t) => (AssistantPersisted(t) <=> CountAdvanced(t))

\* C29: for every conversation that exists, messageCount is even and is at
\* most the number of messages stored for the conversation.
C29_CountEvenAndBounded ==
    \A c \in ConvIds :
        conversations[c].exists =>
            /\ conversations[c].messageCount % 2 = 0
            /\ conversations[c].messageCount <= Len(MessagesOfConversation(c))

\* Two turns, one of them streaming, have run one after the other: four
\* messages and messageCount 4.
C29_Witness ==
    \E t, u \in Turns :
        /\ t # u
        /\ Successful(t) /\ Successful(u) /\ IsStream(u)
        /\ turn[t].req.conv = turn[u].req.conv
        /\ Len(MessagesOfConversation(turn[t].req.conv)) = 4
        /\ conversations[turn[t].req.conv].messageCount = 4

\* C30: the user text a streaming request hands to the completion backend
\* (the content of the last entry of the message list) is not empty and not
\* whitespace only.
C30_UserTextNotBlank ==
    \A t \in Turns :
        (IsStream(t) /\ CalledBackend(t)) =>
            Strip(turn[t].api_messages[Len(turn[t].api_messages)].content) # <<>>

====
